---- MODULE Spec2Model ----
(***************************************************************************)
(* PS/2 keyboard scancode decoder of ps2kbd.c: the PIO RX FIFO filled by   *)
(* the bit sampler, the decoder statics (release, shift, ascii), the       *)
(* non-blocking kbd_ready() and the blocking kbd_getc().                   *)
(*                                                                         *)
(* Characters and scancodes are their byte values (0..255).                *)
(***************************************************************************)
EXTENDS Integers, Sequences, FiniteSets, TLC

\* ------------------------------------------------------------------ bounds
\* Number of scancodes the bit sampler pushes in one run.
MaxPush == 5
\* Number of kbd_ready() bodies run through an unset kbd_pio in one run.
MaxNullReads == 2

\* ------------------------------------------------------- program constants
\* Entries of lower[] and of upper[] (8 rows of 16).
TableSize == 128
\* case 0xF0: key-release prefix.
ReleaseCode == 240
\* case 0x12: left shift.
LShiftCode == 18
\* case 0x59: right shift.
RShiftCode == 89
\* RX FIFO entries with PIO_FIFO_JOIN_RX (the 4-entry TX FIFO joined to RX).
FifoDepth == 8

Byte == 0..255

\* static const uint8_t lower[]: ASCII by scancode, unshifted.
lower ==
    <<   0,   0,   0,   0,   0,   0,   0,   0,   0,   0,   0,   0,   0,   9,  96,   0,
         0,   0,   0,   0,   0, 113,  49,   0,   0,   0, 122, 115,  97, 119,  50,   0,
         0,  99, 120, 100, 101,  52,  51,   0,   0,  32, 118, 102, 116, 114,  53,   0,
         0, 110,  98, 104, 103, 121,  54,   0,   0,   0, 109, 106, 117,  55,  56,   0,
         0,  44, 107, 105, 111,  48,  57,   0,   0,  46,  47, 108,  59, 112,  45,   0,
         0,   0,  39,   0,  91,  61,   0,   0,   0,   0,  10,  93,   0,  92,   0,   0,
         0,   0,   0,   0,   0,   0,   8,   0,   0,   0,   0,   0,   0,   0,   0,   0,
         0,   0,   0,   0,   0,   0,  27,   0,   0,   0,   0,   0,   0,   0,   0,   0 >>

\* static const uint8_t upper[]: ASCII by scancode, shifted.
upper ==
    <<   0,   0,   0,   0,   0,   0,   0,   0,   0,   0,   0,   0,   0,   9, 126,   0,
         0,   0,   0,   0,   0,  81,  33,   0,   0,   0,  90,  83,  65,  87,  64,   0,
         0,  67,  88,  68,  69,  36,  35,   0,   0,  32,  86,  70,  84,  82,  37,   0,
         0,  78,  66,  72,  71,  89,  94,   0,   0,   0,  77,  74,  85,  38,  42,   0,
         0,  60,  75,  73,  79,  41,  40,   0,   0,  62,  63,  76,  58,  80,  95,   0,
         0,   0,  34,   0, 123,  43,   0,   0,   0,   0,  10, 125,   0, 124,   0,   0,
         0,   0,   0,   0,   0,   0,   8,   0,   0,   0,   0,   0,   0,   0,   0,   0,
         0,   0,   0,   0,   0,   0,  27,   0,   0,   0,   0,   0,   0,   0,   0,   0 >>

\* ------------------------------------------------------------------ inputs
\* Scancodes the bit sampler pushes in the streaming specification, one or
\* two of every kind kbd_ready() distinguishes:
\*   28 (0x1C)     a mapped key: 'a' = 97 unshifted, 'A' = 65 shifted
\*   5  (0x05, F1) entry 0 in both tables
\*   131 (0x83, F7) beyond the 128 table entries
\*   240, 18, 89   the release prefix and the two shifts
Codes == {28, 5, 131, ReleaseCode, LShiftCode, RShiftCode}

\* A byte read outside an object has no defined value.  kbd_ready() only
\* copies such a byte and tests it against zero, so three values stand for
\* the 256: zero, a printable one (86 is upper[0x2A], what lower[0xAA] reads
\* when the linker places upper[] right after lower[]) and a non-ASCII one.
StrayBytes == {0, 86, 255}

\* ------------------------------------------------------------------- state
VARIABLES
    kbd_pio,    \* static PIO kbd_pio: "NULL" until kbd_init, then "pio0"/"pio1"
    rxf,        \* the state machine's RX FIFO: scancodes pushed, not yet read
    release,    \* static uint8_t release
    shift,      \* static uint8_t shift
    ascii,      \* static uint8_t ascii
    pc,         \* the caller: "idle", or inside kbd_getc: "getc_loop", "getc_clear"
    c,          \* kbd_getc's local char c
    out,        \* history: the characters kbd_getc has returned, in order
    pushed,     \* history: every scancode the sampler has pushed, in order
    consumed,   \* history: every scancode kbd_ready has read from the FIFO
    decoded,    \* history: every non-zero value the table read stored in ascii
    nullReads,  \* history: kbd_ready bodies that went through kbd_pio = NULL
    last        \* history: what the latest kbd_ready invocation did

vars == <<kbd_pio, rxf, release, shift, ascii, pc, c, out, pushed, consumed,
          decoded, nullReads, last>>

NoCall ==
    [path |-> "none", pio |-> "NULL", popped |-> <<>>,
     idx |-> <<>>, table |-> "none", ascii0 |-> 0, release0 |-> 0,
     shift0 |-> 0, rv |-> 0]

\* The record of one kbd_ready invocation: the branch taken, the scancode
\* read, the table and index of the table read, the statics at
\* entry and the value returned.
Call(path, popped, idx, table, rv) ==
    [path |-> path, pio |-> kbd_pio, popped |-> popped,
     idx |-> idx, table |-> table, ascii0 |-> ascii, release0 |-> release,
     shift0 |-> shift, rv |-> rv]

\* ------------------------------------------------------------ bit sampler
\* The PIO state machine kbd_init configures and enables: it shifts in 8 bits
\* and autopushes the byte into the joined RX FIFO.  It runs on its own, so a
\* push may fall between any two steps of the caller.
SamplerPush ==
    /\ kbd_pio # "NULL"
    /\ Len(pushed) < MaxPush
    /\ Len(rxf) < FifoDepth
    /\ \E code \in Codes :
          /\ rxf' = Append(rxf, code)
          /\ pushed' = Append(pushed, code)
    /\ UNCHANGED <<kbd_pio, release, shift, ascii, pc, c, out, consumed,
                   decoded, nullReads, last>>

\* ---------------------------------------------------------------- kbd_init
\* kbd_init(pio, gpio): kbd_pio = pio ? pio1 : pio0, then the state machine is
\* claimed, configured and enabled with an empty FIFO.  The caller modelled
\* here runs it once.
kbd_init(pio) ==
    /\ kbd_pio = "NULL"
    /\ pc = "idle"
    /\ kbd_pio' = IF pio # 0 THEN "pio1" ELSE "pio0"
    /\ rxf' = <<>>
    /\ UNCHANGED <<release, shift, ascii, pc, c, out, pushed, consumed,
                   decoded, nullReads, last>>

\* --------------------------------------------------------------- kbd_ready
\* Mutant of HasPending: the early return on a waiting character is missing.
HasPending_Never == FALSE

\* if (ascii): a character is already waiting.
HasPending == ascii # 0

\* pio_sm_is_rx_fifo_empty(kbd_pio, kbd_sm).  Through kbd_pio = NULL the
\* read is of no FIFO register: either answer.
RxFifoEmpty == IF kbd_pio = "NULL" THEN BOOLEAN ELSE {rxf = <<>>}

\* *((io_rw_8*)&kbd_pio->rxf[kbd_sm] + 3): the byte at the head of the FIFO.
\* Through kbd_pio = NULL: any byte.
RxFifoRead == IF kbd_pio = "NULL" THEN Byte ELSE {Head(rxf)}

\* Mutant of RxFifoPop: the head of the FIFO is read but stays queued.
RxFifoPop_Peek(code) ==
    IF kbd_pio = "NULL"
    THEN /\ nullReads' = nullReads + 1
         /\ UNCHANGED <<rxf, consumed>>
    ELSE /\ consumed' = Append(consumed, code)
         /\ UNCHANGED <<rxf, nullReads>>

\* The read pops the hardware FIFO (nothing is popped through NULL).
RxFifoPop(code) ==
    IF kbd_pio = "NULL"
    THEN /\ nullReads' = nullReads + 1
         /\ UNCHANGED <<rxf, consumed>>
    ELSE /\ rxf' = Tail(rxf)
         /\ consumed' = Append(consumed, code)
         /\ UNCHANGED nullReads

\* shift ? upper : lower
ActiveTable == IF shift # 0 THEN "upper" ELSE "lower"

\* Mutant of TableRead: the shifted table lacks the control characters.
TableRead_UpperNoControls(table, code) ==
    IF code < TableSize
    THEN IF table = "upper"
         THEN {IF upper[code + 1] < 32 THEN 0 ELSE upper[code + 1]}
         ELSE {lower[code + 1]}
    ELSE StrayBytes

\* Mutant of TableRead: the table is indexed one entry too low.
TableRead_OffByOne(table, code) ==
    IF code \in 1..TableSize
    THEN {(IF table = "upper" THEN upper ELSE lower)[code]}
    ELSE StrayBytes

\* table[code]: the entry when code indexes one of the 128, any byte when the
\* index runs past the array.
TableRead(table, code) ==
    IF code < TableSize
    THEN {(IF table = "upper" THEN upper ELSE lower)[code + 1]}
    ELSE StrayBytes

\* return ascii with ascii already set: nothing is read, nothing changes.
ReturnPending ==
    /\ last' = Call("pending", <<>>, <<>>, "none", ascii)
    /\ UNCHANGED <<rxf, release, shift, ascii, consumed, decoded, nullReads>>

\* Mutant of ReturnEmpty: a poll of the empty FIFO drops the release prefix.
ReturnEmpty_ClearsRelease ==
    /\ last' = Call("empty", <<>>, <<>>, "none", 0)
    /\ nullReads' = IF kbd_pio = "NULL" THEN nullReads + 1 ELSE nullReads
    /\ release' = 0
    /\ UNCHANGED <<rxf, shift, ascii, consumed, decoded>>

\* return 0: no new codes in the fifo.
ReturnEmpty ==
    /\ last' = Call("empty", <<>>, <<>>, "none", 0)
    /\ nullReads' = IF kbd_pio = "NULL" THEN nullReads + 1 ELSE nullReads
    /\ UNCHANGED <<rxf, release, shift, ascii, consumed, decoded>>

\* case 0xF0: release = 1.
OnReleaseCode(code) ==
    /\ release' = 1
    /\ UNCHANGED <<shift, ascii, decoded>>
    /\ last' = Call("release", <<code>>, <<>>, "none", ascii)

\* Mutant of OnShiftCode: a shift make-code toggles shift.
OnShiftCode_Toggles(code) ==
    /\ IF release # 0
       THEN shift' = 0 /\ release' = 0
       ELSE shift' = 1 - shift /\ UNCHANGED release
    /\ UNCHANGED <<ascii, decoded>>
    /\ last' = Call("shift", <<code>>, <<>>, "none", ascii)

\* Mutant of OnShiftCode: a shift after the prefix clears shift only.
OnShiftCode_KeepsRelease(code) ==
    /\ IF release # 0
       THEN shift' = 0 /\ UNCHANGED release
       ELSE shift' = 1 /\ UNCHANGED release
    /\ UNCHANGED <<ascii, decoded>>
    /\ last' = Call("shift", <<code>>, <<>>, "none", ascii)

\* Mutant of OnShiftCode: a shift after the prefix clears release only.
OnShiftCode_KeepsShift(code) ==
    /\ IF release # 0
       THEN release' = 0 /\ UNCHANGED shift
       ELSE shift' = 1 /\ UNCHANGED release
    /\ UNCHANGED <<ascii, decoded>>
    /\ last' = Call("shift", <<code>>, <<>>, "none", ascii)

\* case 0x12, case 0x59: a shift after the prefix clears shift and release,
\* any other shift sets shift.
OnShiftCode(code) ==
    /\ IF release # 0
       THEN shift' = 0 /\ release' = 0
       ELSE shift' = 1 /\ UNCHANGED release
    /\ UNCHANGED <<ascii, decoded>>
    /\ last' = Call("shift", <<code>>, <<>>, "none", ascii)

\* Mutant of OnOtherCode: release is left as it is.
OnOtherCode_KeepsRelease(code) ==
    /\ IF release = 0
       THEN \E v \in TableRead(ActiveTable, code) :
               /\ ascii' = v
               /\ decoded' = IF v # 0 THEN Append(decoded, v) ELSE decoded
               /\ last' = Call("default", <<code>>, <<code>>, ActiveTable, v)
       ELSE /\ UNCHANGED <<ascii, decoded>>
            /\ last' = Call("default", <<code>>, <<>>, "none", ascii)
    /\ UNCHANGED <<release, shift>>

\* Mutant of OnOtherCode: a make-code equal to the scancode read before it is
\* taken for a key still down and dropped.
OnOtherCode_SkipsRepeat(code) ==
    /\ IF release = 0 /\ ~(consumed # <<>> /\ consumed[Len(consumed)] = code)
       THEN \E v \in TableRead(ActiveTable, code) :
               /\ ascii' = v
               /\ decoded' = IF v # 0 THEN Append(decoded, v) ELSE decoded
               /\ last' = Call("default", <<code>>, <<code>>, ActiveTable, v)
       ELSE /\ UNCHANGED <<ascii, decoded>>
            /\ last' = Call("default", <<code>>, <<>>, "none", ascii)
    /\ release' = 0
    /\ UNCHANGED shift

\* Mutant of OnOtherCode: a scancode without a table entry is passed on raw.
OnOtherCode_RawWhenUnmapped(code) ==
    /\ IF release = 0
       THEN \E e \in TableRead(ActiveTable, code) :
               LET v == IF e # 0 THEN e ELSE code
               IN  /\ ascii' = v
                   /\ decoded' = IF v # 0 THEN Append(decoded, v) ELSE decoded
                   /\ last' = Call("default", <<code>>, <<code>>, ActiveTable, v)
       ELSE /\ UNCHANGED <<ascii, decoded>>
            /\ last' = Call("default", <<code>>, <<>>, "none", ascii)
    /\ release' = 0
    /\ UNCHANGED shift

\* Mutant of OnOtherCode: the table is read whether or not the prefix came.
OnOtherCode_IgnoresRelease(code) ==
    /\ \E v \in TableRead(ActiveTable, code) :
          /\ ascii' = v
          /\ decoded' = IF v # 0 THEN Append(decoded, v) ELSE decoded
          /\ last' = Call("default", <<code>>, <<code>>, ActiveTable, v)
    /\ release' = 0
    /\ UNCHANGED shift

\* default: without the prefix ascii = (shift ? upper : lower)[code]; release
\* is cleared either way.
OnOtherCode(code) ==
    /\ IF release = 0
       THEN \E v \in TableRead(ActiveTable, code) :
               /\ ascii' = v
               /\ decoded' = IF v # 0 THEN Append(decoded, v) ELSE decoded
               /\ last' = Call("default", <<code>>, <<code>>, ActiveTable, v)
       ELSE /\ UNCHANGED <<ascii, decoded>>
            /\ last' = Call("default", <<code>>, <<>>, "none", ascii)
    /\ release' = 0
    /\ UNCHANGED shift

\* Mutant of Switch: the case for 0xF0 is missing.
Switch_NoReleaseCase(code) ==
    IF code \in {LShiftCode, RShiftCode} THEN OnShiftCode(code)
    ELSE OnOtherCode(code)

\* switch (code)
Switch(code) ==
    IF code = ReleaseCode THEN OnReleaseCode(code)
    ELSE IF code \in {LShiftCode, RShiftCode} THEN OnShiftCode(code)
    ELSE OnOtherCode(code)

\* int kbd_ready(void); the value returned is last'.rv.
kbd_ready ==
    IF HasPending
    THEN ReturnPending
    ELSE /\ kbd_pio = "NULL" => nullReads < MaxNullReads
         /\ \E empty \in RxFifoEmpty :
               IF empty
               THEN ReturnEmpty
               ELSE \E code \in RxFifoRead :
                       /\ RxFifoPop(code)
                       /\ Switch(code)

\* ---------------------------------------------------------------- kbd_getc
\* char c = <int>: the low 8 bits (char is unsigned on the Arm target).
ToChar(v) == v % 256

\* The caller invokes kbd_ready() itself.
CallKbdReady ==
    /\ pc = "idle"
    /\ kbd_ready
    /\ UNCHANGED <<kbd_pio, pc, c, out, pushed>>

\* The caller invokes kbd_getc(), which enters its loop.
CallKbdGetc ==
    /\ pc = "idle"
    /\ pc' = "getc_loop"
    /\ UNCHANGED <<kbd_pio, rxf, release, shift, ascii, c, out, pushed,
                   consumed, decoded, nullReads, last>>

\* while (!(c = kbd_ready())) tight_loop_contents(): one iteration.
GetcLoop ==
    /\ pc = "getc_loop"
    /\ kbd_ready
    /\ c' = ToChar(last'.rv)
    /\ pc' = IF c' # 0 THEN "getc_clear" ELSE "getc_loop"
    /\ UNCHANGED <<kbd_pio, out, pushed>>

\* Mutant of GetcReturn: ascii is not cleared.
GetcReturn_NoClear ==
    /\ pc = "getc_clear"
    /\ out' = Append(out, c)
    /\ pc' = "idle"
    /\ UNCHANGED <<kbd_pio, rxf, release, shift, ascii, c, pushed, consumed,
                   decoded, nullReads, last>>

\* ascii = 0; return c;
GetcReturn ==
    /\ pc = "getc_clear"
    /\ ascii' = 0
    /\ out' = Append(out, c)
    /\ pc' = "idle"
    /\ UNCHANGED <<kbd_pio, rxf, release, shift, c, pushed, consumed,
                   decoded, nullReads, last>>

\* ---------------------------------------------------------- specifications
\* The statics of a freshly loaded image: all zero, kbd_pio unset.
Statics ==
    /\ rxf = <<>>
    /\ release = 0 /\ shift = 0 /\ ascii = 0
    /\ pc = "idle" /\ c = 0
    /\ out = <<>> /\ pushed = <<>> /\ consumed = <<>> /\ decoded = <<>>
    /\ nullReads = 0
    /\ last = NoCall

\* The decoder as kbd_init(0, gpio) leaves it.
Init ==
    /\ kbd_pio = "pio0"
    /\ Statics

Next ==
    \/ SamplerPush
    \/ CallKbdReady
    \/ CallKbdGetc
    \/ GetcLoop
    \/ GetcReturn

Spec == Init /\ [][Next]_vars

\* The loop of kbd_getc keeps running: tight_loop_contents() is an idle hint,
\* nothing else runs on the caller's core.
FairSpec == Spec /\ WF_vars(GetcLoop) /\ WF_vars(GetcReturn)

\* One scancode of the whole byte domain behind a short prelude, all of it
\* pushed before the caller first polls; the keyboard is silent afterwards.
Preludes ==
    { <<>>, <<LShiftCode>>, <<RShiftCode>>, <<ReleaseCode>>,
      <<LShiftCode, ReleaseCode>>, <<28, ReleaseCode>>, <<5>>,
      <<LShiftCode, 28, ReleaseCode, LShiftCode>> }

InitDecode ==
    /\ kbd_pio = "pio0"
    /\ \E pre \in Preludes : \E code \in Byte :
          /\ rxf = Append(pre, code)
          /\ pushed = Append(pre, code)
    /\ release = 0 /\ shift = 0 /\ ascii = 0
    /\ pc = "idle" /\ c = 0
    /\ out = <<>> /\ consumed = <<>> /\ decoded = <<>>
    /\ nullReads = 0
    /\ last = NoCall

NextDecode ==
    \/ CallKbdReady
    \/ CallKbdGetc
    \/ GetcLoop
    \/ GetcReturn

SpecDecode == InitDecode /\ [][NextDecode]_vars

\* From the loaded image, before kbd_init: the caller may poll at once.
InitBoot ==
    /\ kbd_pio = "NULL"
    /\ Statics

NextBoot ==
    \/ \E pio \in {0, 1} : kbd_init(pio)
    \/ CallKbdReady
    \/ CallKbdGetc
    \/ GetcLoop
    \/ GetcReturn

SpecBoot == InitBoot /\ [][NextBoot]_vars

\* ------------------------------------------------------ reference notions
\* The character waiting in ascii, as a sequence of at most one.
Pending == IF ascii # 0 THEN <<ascii>> ELSE <<>>

\* The scancode translator of the design: the table entry for a scancode in
\* 0..127, no character for any other.
Translate(shifted, s) ==
    IF s < TableSize THEN (IF shifted THEN upper ELSE lower)[s + 1] ELSE 0

\* The reference decoder: steps 2-4 of the decode algorithm applied to a
\* stream one scancode at a time from (pending_release, shift_latched) =
\* (rel, sh), with no pending character in the way, keeping every non-zero
\* result.
RECURSIVE RefDecode(_, _, _)
RefDecode(stream, rel, sh) ==
    IF stream = <<>> THEN <<>>
    ELSE LET s == Head(stream)
             rest == Tail(stream)
         IN  IF s = ReleaseCode THEN RefDecode(rest, TRUE, sh)
             ELSE IF s \in {LShiftCode, RShiftCode}
                  THEN IF rel THEN RefDecode(rest, FALSE, FALSE)
                              ELSE RefDecode(rest, FALSE, TRUE)
             ELSE IF rel THEN RefDecode(rest, FALSE, sh)
             ELSE LET ch == Translate(sh, s)
                  IN  (IF ch # 0 THEN <<ch>> ELSE <<>>)
                          \o RefDecode(rest, FALSE, sh)

\* The scancode the latest kbd_ready read (only used where it read one).
LastCode == last.popped[1]

\* The latest kbd_ready took the default branch without the prefix pending:
\* it consumed its scancode as a key press and read a table.
LastWasPress == last.path = "default" /\ last.release0 = 0

\* The latest kbd_ready took the default branch with the prefix pending: it
\* consumed its scancode as the second byte of a key release.
LastWasRelease == last.path = "default" /\ last.release0 # 0

\* Whether a shift key is down after the keyboard sent `stream`: the last
\* shift code in it is a make-code (not directly preceded by 0xF0).
ShiftDown(stream) ==
    LET at == {i \in 1..Len(stream) : stream[i] \in {LShiftCode, RShiftCode}}
    IN  /\ at # {}
        /\ LET i == CHOOSE k \in at : \A j \in at : j <= k
           IN  ~(i > 1 /\ stream[i - 1] = ReleaseCode)

\* A step in which the body of kbd_ready runs (called directly or by the loop
\* of kbd_getc).
KbdReadyStep == CallKbdReady \/ GetcLoop

\* ------------------------------------------------------------------ claims

\* C1: for every scancode stream and every interleaving of pushes with
\* kbd_ready/kbd_getc, the characters kbd_getc has returned, followed by the
\* one still waiting in ascii, are the reference decoder's output for the
\* scancodes read so far, and the scancodes are read in the order pushed.
C1_RefinesReference ==
    /\ consumed \o rxf = pushed
    /\ out \o Pending = RefDecode(consumed, FALSE, FALSE)

\* C1 restricted to the streams of 0xF0 and scancodes below 128, those the
\* tables cover: there the equality holds.
C1_HoldsInsideTables ==
    (\A i \in 1..Len(consumed) :
          consumed[i] < TableSize \/ consumed[i] = ReleaseCode)
        => C1_RefinesReference

\* C2: while ascii is non-zero every kbd_ready returns that character and
\* leaves ascii, release, shift and the FIFO as they are (nothing is popped,
\* nothing decoded).
C2_PendingFrame ==
    [][ (ascii # 0 /\ KbdReadyStep)
            => /\ last'.rv = ascii
               /\ UNCHANGED <<ascii, release, shift, rxf, consumed, decoded>>
      ]_vars

\* C2 witness: kbd_ready returned the waiting 'a' although scancodes were
\* queued behind it.
C2_Witness ==
    /\ last.path = "pending" /\ last.rv = 97 /\ ascii = 97
    /\ rxf # <<>>
    /\ release = 0

\* C3: kbd_getc returns a non-zero character, the one its last kbd_ready
\* returned and ascii held, and ascii is 0 once it has returned; every
\* character the decoder stored is returned by exactly one kbd_getc, in
\* order (the stored characters are those returned plus the one waiting).
C3_DeliveredOnce ==
    /\ [](decoded = out \o Pending)
    /\ [][ (pc = "getc_clear" /\ pc' = "idle")
              => /\ c # 0
                 /\ c = ToChar(last.rv)
                 /\ c = ascii
                 /\ ascii' = 0
                 /\ out' = Append(out, c)
         ]_vars

\* C3 witness: two kbd_getc calls have returned 'a' and then 'A'.
C3_Witness ==
    /\ out = <<97, 65>>
    /\ ascii = 0
    /\ pc = "idle"

\* C4 (second half): kbd_getc returns only for a key press whose table entry
\* is non-zero: the returns made or about to be made never outnumber the
\* mapped presses among the scancodes read.
C4_ReturnsOnlyOnMappedPress ==
    Len(out) + (IF pc = "getc_clear" THEN 1 ELSE 0)
        <= Len(RefDecode(consumed, FALSE, FALSE))

\* C4 (first half): a kbd_getc spinning while the FIFO holds a key press
\* whose table entry is non-zero eventually leaves its loop and returns.
C4_BlockedGetcReturns ==
    (pc = "getc_loop" /\ RefDecode(rxf, release # 0, shift # 0) # <<>>)
        ~> (pc = "getc_clear")

\* C5: a scancode other than 0xF0/0x12/0x59 read while release is set
\* produces nothing (ascii stays 0, kbd_ready returns 0, no table is read);
\* read while release is clear it produces its entry in the active table
\* (for the scancodes that have one), which stays in ascii until kbd_getc
\* returns it.
C5_ReleaseSuppression ==
    /\ LastWasRelease
          => /\ last.rv = 0 /\ last.ascii0 = 0 /\ ascii = 0
             /\ last.idx = <<>>
             /\ release = 0
    /\ (LastWasPress /\ LastCode < TableSize)
          => /\ last.rv = Translate(last.shift0 # 0, LastCode)
             /\ \/ ascii = last.rv
                \/ ascii = 0 /\ out # <<>> /\ out[Len(out)] = last.rv

\* C5 witness: [0x1C, 0xF0, 0x1C] has been read: the first 0x1C gave 'a',
\* the one after the prefix nothing.
C5_Witness ==
    /\ consumed = <<28, ReleaseCode, 28>>
    /\ LastWasRelease
    /\ decoded = <<97>>

\* C6: a key press is translated with the upper table exactly when the last
\* shift code read before it was a make-code, and with the lower table when
\* there was none or it followed 0xF0; shift itself follows the same rule.
C6_ShiftTracksStream ==
    /\ (shift # 0) = ShiftDown(consumed)
    /\ LastWasPress
          => /\ last.table = (IF ShiftDown(consumed) THEN "upper" ELSE "lower")
             /\ LastCode < TableSize
                   => last.rv = Translate(ShiftDown(consumed), LastCode)

\* C6 witness: [0x12, 0x1C, 0xF0, 0x12, 0x1C] gave 'A' and then 'a'.
C6_Witness ==
    /\ consumed = <<LShiftCode, 28, ReleaseCode, LShiftCode, 28>>
    /\ decoded = <<65, 97>>

\* C7: over the whole byte domain, a scancode other than 0xF0/0x12/0x59
\* decoded as a press yields the entry of the 128-entry lower table (shift
\* clear) or upper table (shift set), no character where it has none.
C7_TableLookupAllBytes ==
    LastWasPress => last.rv = Translate(last.shift0 # 0, LastCode)

\* C8: every table read uses an index within 0..127.
C8_IndexInsideTable ==
    last.idx # <<>> => last.idx[1] \in 0..(TableSize - 1)

\* C9: as long as kbd_init has not run, no kbd_ready or kbd_getc reads a
\* FIFO or touches the decode state.
C9_NoDecodeBeforeInit ==
    kbd_pio = "NULL"
        => /\ nullReads = 0
           /\ release = 0 /\ shift = 0 /\ ascii = 0
           /\ out = <<>>

\* C10: a scancode whose entry in the active table is 0, read as a press, is
\* popped and leaves the decoder as an empty poll would (ascii 0, kbd_ready
\* returns 0, release and shift as before, the caller still running); and a
\* mapped press read right after it yields its table entry.
C10_UnmappedIsSilent ==
    LET n == Len(consumed)
        Unmapped(code, sh) == code < TableSize /\ Translate(sh, code) = 0
    IN  /\ (LastWasPress /\ Unmapped(LastCode, last.shift0 # 0))
              => /\ last.rv = 0 /\ ascii = 0
                 /\ consumed[n] = LastCode /\ consumed \o rxf = pushed
                 /\ release = 0 /\ shift = last.shift0
                 /\ pc \in {"idle", "getc_loop"}
                 /\ decoded = out
        /\ ( /\ LastWasPress /\ LastCode < TableSize
             /\ n >= 2
             /\ Unmapped(consumed[n - 1], ShiftDown(consumed))
             /\ ~(n >= 3 /\ consumed[n - 2] = ReleaseCode) )
              => last.rv = Translate(ShiftDown(consumed), LastCode)

\* C10 witness: F1 (0x05, unmapped) then 0x1C were read as presses: only 'a'
\* was produced.
C10_Witness ==
    /\ consumed = <<5, 28>>
    /\ decoded = <<97>>
    /\ last.rv = 97

\* The scancode read k places before the latest one (0: the latest itself),
\* or -1 where the scancodes read do not reach that far back.
Back(k) ==
    IF Len(consumed) > k THEN consumed[Len(consumed) - k] ELSE -1

\* C11: after two shift make-codes read in a row (either shift key, the
\* first not the second byte of a release), shift is set and release clear,
\* as after one.
C11_ShiftPressIdempotent ==
    ( /\ Back(0) \in {LShiftCode, RShiftCode}
      /\ Back(1) \in {LShiftCode, RShiftCode}
      /\ Back(2) # ReleaseCode )
        => shift = 1 /\ release = 0

\* C11 witness: left shift then right shift were read, nothing else.
C11_Witness ==
    /\ consumed = <<LShiftCode, RShiftCode>>
    /\ shift = 1

\* C12: a press of tab (0x0D), enter (0x5A), backspace (0x66) or escape
\* (0x76) yields 0x09, 0x0A, 0x08, 0x1B, with shift set as with shift clear.
C12_ControlCodes ==
    (LastWasPress /\ LastCode \in {13, 90, 102, 118})
        => last.rv = ( CASE LastCode = 13 -> 9
                         [] LastCode = 90 -> 10
                         [] LastCode = 102 -> 8
                         [] LastCode = 118 -> 27 )

\* C12 witness: backspace pressed with shift held gave 0x08.
C12_Witness ==
    /\ consumed = <<LShiftCode, 102>>
    /\ last.shift0 = 1
    /\ last.rv = 8

\* C13 as stated: whatever scancode follows 0xF0, 0xF0 itself included,
\* release is clear once it has been read.
C13_AnyCodeClearsRelease ==
    Back(1) = ReleaseCode => release = 0

\* C13 amended: a scancode other than 0xF0 read right after 0xF0 leaves
\* release clear; a second 0xF0 leaves it set.
C13_NextCodeClearsRelease ==
    Back(1) = ReleaseCode => ((release = 0) = (Back(0) # ReleaseCode))

\* C13 witness: 0xF0 then 0x1C were read and release is clear again.
C13_Witness ==
    /\ consumed = <<ReleaseCode, 28>>
    /\ release = 0

\* The shift keys down after a keyboard has sent the first n scancodes of
\* `stream`: a shift make-code puts its key down, 0xF0 and the make-code
\* lets it up.
RECURSIVE ShiftKeysDown(_, _)
ShiftKeysDown(stream, n) ==
    IF n = 0 THEN {}
    ELSE LET x == stream[n]
             before == ShiftKeysDown(stream, n - 1)
         IN  IF x \notin {LShiftCode, RShiftCode} THEN before
             ELSE IF n > 1 /\ stream[n - 1] = ReleaseCode
                  THEN before \ {x}
                  ELSE before \cup {x}

\* `stream` is what a keyboard sends: make-codes (repeated while a key is
\* held) and releases, each 0xF0 followed by the make-code of the key let
\* up, a shift key being let up only when it is down.
KeyboardStream(stream) ==
    /\ stream = <<>> \/ stream[Len(stream)] # ReleaseCode
    /\ \A i \in 1..Len(stream) :
          stream[i] = ReleaseCode
              => /\ i < Len(stream) => stream[i + 1] # ReleaseCode
                 /\ (i < Len(stream)
                         /\ stream[i + 1] \in {LShiftCode, RShiftCode})
                       => stream[i + 1] \in ShiftKeysDown(stream, i)

\* C14: once the decoder has read everything a keyboard has sent, shift is
\* set exactly when at least one of the two shift keys is down.
C14_ShiftMirrorsKeys ==
    (rxf = <<>> /\ consumed = pushed /\ KeyboardStream(pushed))
        => ((shift # 0) = (ShiftKeysDown(pushed, Len(pushed)) # {}))

\* C14 with one shift key in use at a time (never both down): there shift
\* does mirror the key.
C14_HoldsForOneShiftKey ==
    ( /\ rxf = <<>> /\ consumed = pushed /\ KeyboardStream(pushed)
      /\ \A n \in 0..Len(pushed) :
            Cardinality(ShiftKeysDown(pushed, n)) <= 1 )
        => ((shift # 0) = (ShiftKeysDown(pushed, Len(pushed)) # {}))

\* C15: a kbd_ready pops exactly the head of the FIFO when ascii is 0 and the
\* FIFO is not empty, and nothing otherwise; the scancodes read followed by
\* those still queued are always the scancodes pushed, in order.
C15_PopsOneInOrder ==
    /\ [](consumed \o rxf = pushed)
    /\ [][ KbdReadyStep
              => IF ascii = 0 /\ rxf # <<>>
                 THEN /\ rxf' = Tail(rxf)
                      /\ consumed' = Append(consumed, Head(rxf))
                 ELSE UNCHANGED <<rxf, consumed>>
         ]_vars

\* C15 witness: of four scancodes pushed, two were read one by one and two
\* are still queued.
C15_Witness ==
    /\ Len(pushed) = 4
    /\ Len(consumed) = 2
    /\ rxf = SubSeq(pushed, 3, 4)
    /\ last.popped = <<consumed[2]>>

\* C16: release is set exactly when at least one scancode has been read and
\* the latest one read is 0xF0.
C16_ReleaseIffLastWasPrefix ==
    (release # 0) = (Back(0) = ReleaseCode)

\* C16 witness: 0x1C then 0xF0 were read and release is set.
C16_Witness ==
    /\ consumed = <<28, ReleaseCode>>
    /\ release = 1

\* C17: a kbd_ready run with ascii 0 and the FIFO empty returns 0 and leaves
\* release, shift, ascii and the FIFO as they are.
C17_EmptyPollFrame ==
    [][ (ascii = 0 /\ rxf = <<>> /\ KbdReadyStep)
            => /\ last'.rv = 0
               /\ UNCHANGED <<release, shift, ascii, rxf, consumed, decoded>>
      ]_vars

\* C17 witness: the FIFO was polled empty with the release prefix pending and
\* shift set, and both are still there.
C17_Witness ==
    /\ last.path = "empty" /\ last.rv = 0
    /\ last.release0 = 1 /\ release = 1
    /\ last.shift0 = 1 /\ shift = 1
    /\ rxf = <<>>

\* C18: the kbd_ready that reads 0xF0, 0x12 or 0x59 (a shift make-code or the
\* second byte of a shift release) finds ascii 0, leaves it 0, stores no
\* character and returns 0.
C18_PrefixAndShiftAreSilent ==
    [][ (consumed' # consumed
            /\ consumed'[Len(consumed')]
                  \in {ReleaseCode, LShiftCode, RShiftCode})
            => /\ ascii = 0 /\ ascii' = 0
               /\ last'.rv = 0
               /\ last'.idx = <<>>
               /\ decoded' = decoded
      ]_vars

\* C18 witness: a shift code was read as the second byte of a release and
\* nothing was produced.
C18_Witness ==
    /\ last.path = "shift" /\ last.release0 = 1
    /\ last.rv = 0 /\ ascii = 0
    /\ consumed = <<LShiftCode, ReleaseCode, LShiftCode>>
    /\ decoded = <<>>

\* C19: a waiting character excludes a pending release prefix, so the
\* decoder is EMPTY (ascii 0, release 0), RELEASE_PENDING (ascii 0, release
\* 1) or CHAR_READY (ascii set, release 0), with shift 0 or 1; until a
\* scancode has been read it is EMPTY with shift 0.
C19_ThreeStates ==
    /\ release \in {0, 1} /\ shift \in {0, 1} /\ ascii \in Byte
    /\ ascii # 0 => release = 0
    /\ consumed = <<>> => (ascii = 0 /\ release = 0 /\ shift = 0)

\* C19 witness: CHAR_READY with shift on, reached through a key release.
C19_Witness ==
    /\ consumed = <<LShiftCode, ReleaseCode, 28, 28>>
    /\ ascii = 65 /\ release = 0 /\ shift = 1

\* C20: make-codes of one mapped key read in a row as presses each produce
\* the key's character: after k of them the k latest characters stored are
\* that character, and (C3) the characters stored are those kbd_getc
\* returned plus the one waiting.
C20_RepeatsNotMerged ==
    /\ decoded = out \o Pending
    /\ \A k \in 1..Len(consumed) :
          LET x == Back(0)
              ch == Translate(shift # 0, x)
          IN  ( /\ \A j \in 0..(k - 1) : Back(j) = x
                /\ Back(k) # ReleaseCode
                /\ x < TableSize /\ ch # 0 )
                  => /\ Len(decoded) >= k
                     /\ \A j \in 0..(k - 1) :
                           decoded[Len(decoded) - j] = ch

\* C20 witness: three make-codes of 0x1C in a row, three kbd_getc calls
\* returned 'a' each.
C20_Witness ==
    /\ consumed = <<28, 28, 28>>
    /\ out = <<97, 97, 97>>
    /\ pc = "idle"

====
